---- MODULE Spec2Model ----
(***************************************************************************)
(* Lab Orders Lite: the domain service layer (patients, tests, orders)     *)
(* over the soft-delete-aware Prisma client.                               *)
(*                                                                         *)
(* Text is modelled as sequences of one-character strings, timestamps as   *)
(* integer ticks, optional (nullable / undefined) values as sequences of   *)
(* length 0 (absent) or 1 (present), row ids as positions in the table.    *)
(***************************************************************************)
EXTENDS Integers, Sequences, FiniteSets, TLC

VARIABLES
    patients,    \* table Patient: sequence of rows, id = position
    tests,       \* table Test
    orders,      \* table Order
    orderTests,  \* table OrderTest, grouped by order: order id -> sequence of test ids
    now,         \* the clock read by new Date()
    result,      \* outcome of the last service call
    name1,       \* first argument given to namesMatchWordBased
    name2,       \* second argument given to namesMatchWordBased
    matched,     \* what namesMatchWordBased returned for (name1, name2)
    calls,       \* per request slot: the service call suspended at an await, if any
    seen,        \* the OrderTest rows the last getOrderById(id, true) returned
    query,       \* the page and limit parameters of a list request's query string
    paging       \* what extractPaginationParams returned for query

vars == <<patients, tests, orders, orderTests, now, result, name1, name2, matched,
          calls, seen, query, paging>>
store == <<patients, tests, orders, orderTests>>
matcherVars == <<name1, name2, matched>>
listing == <<query, paging>>
inflight == <<calls, seen, listing>>

----------------------------------------------------------------------------
(* Bounds of the model *)

MaxPatients == 2
MaxStorePatients == 1
MaxTests == 2
MaxOrders == 1
MaxNow == 1
MaxNameLen == 3
TicksPerDay == 2

----------------------------------------------------------------------------
(* Optional values *)

Null == <<>>
Some(x) == <<x>>
IsNull(o) == o = <<>>
Val(o) == o[1]

SeqToSet(s) == {s[i] : i \in 1..Len(s)}

RECURSIVE SumSeq(_)
SumSeq(s) == IF s = <<>> THEN 0 ELSE Head(s) + SumSeq(Tail(s))

RECURSIVE MaxSeq(_)
MaxSeq(s) ==
    IF Len(s) = 1 THEN Head(s)
    ELSE LET m == MaxSeq(Tail(s)) IN IF Head(s) > m THEN Head(s) ELSE m

----------------------------------------------------------------------------
(* Text *)

Chars == {"a", "b", "A", " "}

IsWs(c) == c = " "

LowerChar(c) == IF c = "A" THEN "a" ELSE c

toLowerCase(s) == [i \in 1..Len(s) |-> LowerChar(s[i])]

RECURSIVE trimStart(_)
trimStart(s) ==
    IF s # <<>> /\ IsWs(Head(s)) THEN trimStart(Tail(s)) ELSE s

RECURSIVE trimEnd(_)
trimEnd(s) ==
    IF s # <<>> /\ IsWs(s[Len(s)]) THEN trimEnd(SubSeq(s, 1, Len(s) - 1)) ELSE s

trim(s) == trimEnd(trimStart(s))

\* String.prototype.split(/\s+/): every maximal run of whitespace is one
\* separator; a separator at either end yields an empty token there.
RECURSIVE SplitAcc(_, _, _)
SplitAcc(s, cur, prevWs) ==
    IF s = <<>> THEN <<cur>>
    ELSE IF IsWs(Head(s))
         THEN IF prevWs THEN SplitAcc(Tail(s), cur, TRUE)
              ELSE <<cur>> \o SplitAcc(Tail(s), <<>>, TRUE)
         ELSE SplitAcc(Tail(s), Append(cur, Head(s)), FALSE)

splitWs(s) == SplitAcc(s, <<>>, FALSE)

\* Prisma { contains: sub, mode: "insensitive" }
containsInsensitive(s, sub) ==
    LET ls == toLowerCase(s)
        lsub == toLowerCase(sub)
    IN  \E i \in 0..(Len(ls) - Len(lsub)) : SubSeq(ls, i + 1, i + Len(lsub)) = lsub

includes(ws, w) == \E i \in 1..Len(ws) : ws[i] = w

every(ws, P(_)) == \A i \in 1..Len(ws) : P(ws[i])

----------------------------------------------------------------------------
(* PatientRepository: name matching *)

\* .filter(word => word.length > 0)
RECURSIVE filterNonEmpty(_)
filterNonEmpty(ws) ==
    IF ws = <<>> THEN <<>>
    ELSE IF Len(Head(ws)) > 0 THEN <<Head(ws)>> \o filterNonEmpty(Tail(ws))
    ELSE filterNonEmpty(Tail(ws))

normalizeNameToWords(name) ==
    filterNonEmpty(splitWs(toLowerCase(trim(name))))

namesMatchWordBased(n1, n2) ==
    LET words1 == normalizeNameToWords(n1)
        words2 == normalizeNameToWords(n2)
    IN  IF Len(words1) = 0 \/ Len(words2) = 0 THEN FALSE
        ELSE LET shorter == IF Len(words1) <= Len(words2) THEN words1 ELSE words2
                 longer == IF Len(words1) > Len(words2) THEN words1 ELSE words2
                 InLonger(w) == includes(longer, w)
             IN  every(shorter, InLonger)

----------------------------------------------------------------------------
(* The matcher applied to arbitrary names *)

RECURSIVE StringsUpTo(_)
StringsUpTo(n) ==
    IF n = 0 THEN {<<>>}
    ELSE LET shorter == StringsUpTo(n - 1)
         IN  shorter \cup {Append(s, c) : s \in {t \in shorter : Len(t) = n - 1}, c \in Chars}

AllNames == StringsUpTo(MaxNameLen)

MatcherInit ==
    /\ name1 \in AllNames
    /\ name2 \in AllNames
    /\ matched = Null

CallNamesMatch ==
    /\ matched = Null
    /\ matched' = Some(namesMatchWordBased(name1, name2))
    /\ UNCHANGED <<name1, name2>>

----------------------------------------------------------------------------
(* Requests in flight: a service call is a chain of awaits, and another      *)
(* request may run between two of them                                       *)

Slots == {1, 2}

Idle == [pc |-> "idle", id |-> 0, data |-> Null, computed |-> Null, prior |-> Null]

InflightInit ==
    /\ calls = [p \in Slots |-> Idle]
    /\ seen = Null

ListingInit ==
    /\ query = [page |-> Null, limit |-> Null]
    /\ paging = Null

----------------------------------------------------------------------------
(* lib/prisma.ts: the base client (prismaRaw) *)

\* Rows keep their insertion order, which is the order of createdAt.
Reverse(s) == [i \in 1..Len(s) |-> s[Len(s) + 1 - i]]

Min(a, b) == IF a < b THEN a ELSE b

\* prismaClient.<model>.findUnique({ where: { id } })
rawFindUnique(table, id) ==
    IF id \in 1..Len(table) THEN Some(table[id]) ELSE Null

\* skip / take applied to an ordered result
window(rows, skip, take) == SubSeq(rows, skip + 1, Min(skip + take, Len(rows)))

\* prismaClient.<model>.update({ where: { id }, data: { deletedAt: new Date() } })
\* mutant: a delete that physically removes the row
rawMarkDeleted_RemovesRow(table, id) ==
    SubSeq(table, 1, id - 1) \o SubSeq(table, id + 1, Len(table))

rawMarkDeleted(table, id) == [table EXCEPT ![id].deletedAt = Some(now)]

----------------------------------------------------------------------------
(* lib/prisma.ts: where clauses.  A clause the caller leaves out is Null. *)

NoPatientWhere ==
    [name |-> Null, gender |-> Null, phone |-> Null, dob |-> Null,
     OR |-> Null, deletedAt |-> Null]

NoTestWhere ==
    [id |-> Null, name |-> Null, isAvailable |-> Null, priceGte |-> Null,
     priceLte |-> Null, deletedAt |-> Null]

NoOrderWhere ==
    [patientId |-> Null, status |-> Null, totalCostGte |-> Null, totalCostLte |-> Null,
     readyDateGte |-> Null, readyDateLte |-> Null, patientName |-> Null,
     deletedAt |-> Null]

\* { deletedAt: null } as a where clause
DeletedAtIsNull == Some("null")

optContains(field, sub) == ~IsNull(field) /\ containsInsensitive(Val(field), sub)

\* one member of an OR list of the Patient where clause
patientOrClause(row, c) ==
    CASE c.field = "name" -> containsInsensitive(row.name, c.contains)
      [] c.field = "phone" -> optContains(row.phone, c.contains)
      [] c.field = "address" -> optContains(row.address, c.contains)
      [] c.field = "deletedAt" -> IsNull(row.deletedAt)

patientMatches(row, where) ==
    /\ IsNull(where.name) \/ containsInsensitive(row.name, Val(where.name))
    /\ IsNull(where.gender) \/ row.gender = Val(where.gender)
    /\ IsNull(where.phone) \/ optContains(row.phone, Val(where.phone))
    /\ IsNull(where.dob) \/ (row.dob >= Val(where.dob).gte /\ row.dob <= Val(where.dob).lte)
    /\ IsNull(where.OR)
         \/ \E i \in 1..Len(Val(where.OR)) : patientOrClause(row, Val(where.OR)[i])
    /\ IsNull(where.deletedAt) \/ IsNull(row.deletedAt)

testMatches(row, where) ==
    /\ IsNull(where.id) \/ row.id \in Val(where.id)
    /\ IsNull(where.name) \/ containsInsensitive(row.name, Val(where.name))
    /\ IsNull(where.isAvailable) \/ row.isAvailable = Val(where.isAvailable)
    /\ IsNull(where.priceGte) \/ row.price >= Val(where.priceGte)
    /\ IsNull(where.priceLte) \/ row.price <= Val(where.priceLte)
    /\ IsNull(where.deletedAt) \/ IsNull(row.deletedAt)

\* where.patient = { name: { contains } } is a filter on the related Patient row
orderMatches(row, where) ==
    /\ IsNull(where.patientId) \/ row.patientId = Val(where.patientId)
    /\ IsNull(where.status) \/ row.status = Val(where.status)
    /\ IsNull(where.totalCostGte) \/ row.totalCost >= Val(where.totalCostGte)
    /\ IsNull(where.totalCostLte) \/ row.totalCost <= Val(where.totalCostLte)
    /\ IsNull(where.readyDateGte) \/ row.readyDate >= Val(where.readyDateGte)
    /\ IsNull(where.readyDateLte) \/ row.readyDate <= Val(where.readyDateLte)
    /\ IsNull(where.patientName)
         \/ containsInsensitive(patients[row.patientId].name, Val(where.patientName))
    /\ IsNull(where.deletedAt) \/ IsNull(row.deletedAt)

----------------------------------------------------------------------------
(* lib/prisma.ts: the extended client (prisma) *)

\* mutant: findMany without the injected deletedAt clause
patientFindMany_NoInjection(where) ==
    LET Hit(row) == patientMatches(row, where)
    IN  SelectSeq(patients, Hit)

\* patient.findMany: args.where = { ...args.where, deletedAt: null }
patientFindMany(where) ==
    LET w == [where EXCEPT !.deletedAt = DeletedAtIsNull]
        Hit(row) == patientMatches(row, w)
    IN  SelectSeq(patients, Hit)

\* mutant: findUnique that returns soft-deleted rows
patientFindUnique_NoMarkerCheck(id) == rawFindUnique(patients, id)

\* patient.findUnique: a row whose deletedAt is set is returned as null
patientFindUnique(id) ==
    LET r == rawFindUnique(patients, id)
    IN  IF ~IsNull(r) /\ ~IsNull(Val(r).deletedAt) THEN Null ELSE r

\* patient.count is not among the extended operations: the base client answers
patientCount(where) ==
    LET Hit(row) == patientMatches(row, where)
    IN  Len(SelectSeq(patients, Hit))

\* patient.delete: rewritten to an update of deletedAt on the base client
patientDelete(id) == rawMarkDeleted(patients, id)

\* mutant: findMany without the injected deletedAt clause
testFindMany_NoInjection(where) ==
    LET Hit(row) == testMatches(row, where)
    IN  SelectSeq(tests, Hit)

testFindMany(where) ==
    LET w == [where EXCEPT !.deletedAt = DeletedAtIsNull]
        Hit(row) == testMatches(row, w)
    IN  SelectSeq(tests, Hit)

\* mutant: findUnique that returns soft-deleted rows
testFindUnique_NoMarkerCheck(id) == rawFindUnique(tests, id)

testFindUnique(id) ==
    LET r == rawFindUnique(tests, id)
    IN  IF ~IsNull(r) /\ ~IsNull(Val(r).deletedAt) THEN Null ELSE r

testCount(where) ==
    LET Hit(row) == testMatches(row, where)
    IN  Len(SelectSeq(tests, Hit))

testDelete(id) == rawMarkDeleted(tests, id)

orderFindMany(where) ==
    LET w == [where EXCEPT !.deletedAt = DeletedAtIsNull]
        Hit(row) == orderMatches(row, w)
    IN  SelectSeq(orders, Hit)

orderFindUnique(id) ==
    LET r == rawFindUnique(orders, id)
    IN  IF ~IsNull(r) /\ ~IsNull(Val(r).deletedAt) THEN Null ELSE r

orderCount(where) ==
    LET Hit(row) == orderMatches(row, where)
    IN  Len(SelectSeq(orders, Hit))

orderDelete(id) == rawMarkDeleted(orders, id)

----------------------------------------------------------------------------
(* Pagination, shared by the repositories' findAll *)

\* pagination?.page ?? 1, pagination?.limit ?? 10
DefaultPage == 1
DefaultLimit == 10

pageOf(pagination) == IF IsNull(pagination) THEN DefaultPage ELSE Val(pagination).page
limitOf(pagination) == IF IsNull(pagination) THEN DefaultLimit ELSE Val(pagination).limit
skipOf(pagination) == (pageOf(pagination) - 1) * limitOf(pagination)

\* a JavaScript string used as a condition: "" is falsy
Truthy(optText) == ~IsNull(optText) /\ Len(Val(optText)) > 0

\* the list envelope of the routes: totalPages: Math.ceil(result.total / result.limit)
totalPages(listed) == (listed.total + listed.limit - 1) \div listed.limit

----------------------------------------------------------------------------
(* lib/api-handler.ts: extractPaginationParams *)

\* a JavaScript number: an integer or NaN
Num(n) == [nan |-> FALSE, v |-> n]
NaN == [nan |-> TRUE, v |-> 0]

Digits == <<"0", "1", "2", "3", "4", "5", "6", "7", "8", "9">>
IsDigit(c) == \E d \in 1..10 : Digits[d] = c
DigitValue(c) == (CHOOSE d \in 1..10 : Digits[d] = c) - 1

\* the longest prefix of s made of decimal digits
RECURSIVE digitPrefix(_)
digitPrefix(s) ==
    IF s = <<>> \/ ~IsDigit(Head(s)) THEN <<>>
    ELSE <<Head(s)>> \o digitPrefix(Tail(s))

RECURSIVE decimalValue(_, _)
decimalValue(s, acc) ==
    IF s = <<>> THEN acc ELSE decimalValue(Tail(s), acc * 10 + DigitValue(Head(s)))

\* parseInt(s, 10): leading white space, an optional sign, then digits up to the
\* first character that is not a digit; NaN when there is no digit
parseInt(s) ==
    LET t == trimStart(s)
        negative == t # <<>> /\ Head(t) = "-"
        signed == t # <<>> /\ Head(t) \in {"-", "+"}
        digits == digitPrefix(IF signed THEN Tail(t) ELSE t)
    IN  IF digits = <<>> THEN NaN
        ELSE Num(IF negative THEN 0 - decimalValue(digits, 0)
                 ELSE decimalValue(digits, 0))

\* Math.max and Math.min return NaN when an argument is NaN
MathMax(a, b) == IF a.nan \/ b.nan THEN NaN ELSE IF a.v >= b.v THEN a ELSE b
MathMin(a, b) == IF a.nan \/ b.nan THEN NaN ELSE IF a.v <= b.v THEN a ELSE b

\* searchParams.get(key) || fallback: null and "" are falsy
orElse(optText, fallback) == IF Truthy(optText) THEN Val(optText) ELSE fallback

MaxLimit == 100

extractPaginationParams(q) ==
    [page |-> MathMax(Num(1), parseInt(orElse(q.page, <<"1">>))),
     limit |-> MathMin(Num(MaxLimit),
                       MathMax(Num(1), parseInt(orElse(q.limit, <<"1", "0">>))))]

ExtractPagination ==
    /\ paging = Null
    /\ paging' = Some(extractPaginationParams(query))
    /\ UNCHANGED <<store, now, result, matcherVars, calls, seen, query>>

----------------------------------------------------------------------------
(* core/patients/patient.repository.ts *)

NoPatientFilters == [name |-> Null, gender |-> Null, phone |-> Null, search |-> Null]

optTrim(o) == IF IsNull(o) THEN Null ELSE Some(trim(Val(o)))

PatientRepository_create(data) ==
    Append(patients,
           [id |-> Len(patients) + 1,
            name |-> trim(data.name),
            dob |-> data.dob,
            phone |-> optTrim(data.phone),
            gender |-> data.gender,
            address |-> optTrim(data.address),
            deletedAt |-> Null])

PatientRepository_findById(id) == patientFindUnique(id)

\* the where clause built by findAll and by count
PatientRepository_where(filters) ==
    [NoPatientWhere EXCEPT
        !.name = IF Truthy(filters.name) THEN filters.name ELSE Null,
        !.gender = filters.gender,
        !.phone = IF Truthy(filters.phone) THEN filters.phone ELSE Null,
        !.OR = IF Truthy(filters.search)
               THEN Some(<<[field |-> "name", contains |-> Val(filters.search)],
                           [field |-> "phone", contains |-> Val(filters.search)],
                           [field |-> "address", contains |-> Val(filters.search)]>>)
               ELSE Null]

PatientRepository_findAll(filters, pagination) ==
    LET where == PatientRepository_where(filters)
    IN  [data |-> window(Reverse(patientFindMany(where)), skipOf(pagination),
                         limitOf(pagination)),
         total |-> patientCount(where),
         page |-> pageOf(pagination),
         limit |-> limitOf(pagination)]

\* mutant: a phone absent from the request is written as null
PatientRepository_update_NullsAbsentPhone(id, data) ==
    [patients EXCEPT ![id] =
        [@ EXCEPT !.name = IF IsNull(data.name) THEN @ ELSE Val(data.name),
                  !.dob = IF IsNull(data.dob) THEN @ ELSE Val(data.dob),
                  !.phone = IF IsNull(data.phone) THEN Null ELSE Val(data.phone),
                  !.gender = IF IsNull(data.gender) THEN @ ELSE Val(data.gender),
                  !.address = IF IsNull(data.address) THEN @ ELSE Val(data.address)]]

PatientRepository_update(id, data) ==
    [patients EXCEPT ![id] =
        [@ EXCEPT !.name = IF IsNull(data.name) THEN @ ELSE Val(data.name),
                  !.dob = IF IsNull(data.dob) THEN @ ELSE Val(data.dob),
                  !.phone = IF IsNull(data.phone) THEN @ ELSE Val(data.phone),
                  !.gender = IF IsNull(data.gender) THEN @ ELSE Val(data.gender),
                  !.address = IF IsNull(data.address) THEN @ ELSE Val(data.address)]]

PatientRepository_delete(id) == patientDelete(id)

\* the record `prisma.patient.delete` resolves to: the result of the update
PatientRepository_deleteReturned(id) == patientDelete(id)[id]

PatientRepository_exists(id) == ~IsNull(patientFindUnique(id))

PatientRepository_count(filters) == patientCount(PatientRepository_where(filters))

\* Date.UTC(year, month, day, 0, 0, 0, 0) and Date.UTC(year, month, day, 23, 59, 59, 999)
utcDayStart(t) == (t \div TicksPerDay) * TicksPerDay
utcDayEnd(t) == utcDayStart(t) + TicksPerDay - 1

RECURSIVE firstMatch(_, _)
firstMatch(newName, rows) ==
    IF rows = <<>> THEN Null
    ELSE IF namesMatchWordBased(newName, Head(rows).name) THEN Some(Head(rows))
    ELSE firstMatch(newName, Tail(rows))

PatientRepository_findDuplicate(data) ==
    LET newName == trim(data.name)
        newNameWords == normalizeNameToWords(newName)
        nameFilters == [i \in 1..Len(newNameWords) |->
                           [field |-> "name", contains |-> newNameWords[i]]]
        where == [NoPatientWhere EXCEPT
                     !.dob = Some([gte |-> utcDayStart(data.dob), lte |-> utcDayEnd(data.dob)]),
                     !.OR = Some(nameFilters \o <<[field |-> "deletedAt", contains |-> <<>>]>>)]
    IN  IF Len(newNameWords) = 0 THEN Null
        ELSE firstMatch(newName, patientFindMany(where))

----------------------------------------------------------------------------
(* core/tests/test.repository.ts *)

NoTestFilters ==
    [name |-> Null, isAvailable |-> Null, minPrice |-> Null, maxPrice |-> Null,
     search |-> Null]

TestRepository_create(data) ==
    Append(tests,
           [id |-> Len(tests) + 1,
            name |-> data.name,
            price |-> data.price,
            turnaroundDays |-> data.turnaroundDays,
            isAvailable |-> IF IsNull(data.isAvailable) THEN TRUE ELSE Val(data.isAvailable),
            deletedAt |-> Null])

TestRepository_findById(id) == testFindUnique(id)

\* mutant: one fetched row per requested id, repetitions included
TestRepository_findByIds_RowPerId(ids) ==
    LET Stored(t) == t \in 1..Len(tests) /\ IsNull(tests[t].deletedAt)
        found == SelectSeq(ids, Stored)
    IN  [i \in 1..Len(found) |-> tests[found[i]]]

TestRepository_findByIds(ids) ==
    testFindMany([NoTestWhere EXCEPT !.id = Some(SeqToSet(ids))])

\* where.name is assigned from filters.name and then again from filters.search
TestRepository_where(filters) ==
    [NoTestWhere EXCEPT
        !.name = IF Truthy(filters.search) THEN filters.search
                 ELSE IF Truthy(filters.name) THEN filters.name ELSE Null,
        !.isAvailable = filters.isAvailable,
        !.priceGte = filters.minPrice,
        !.priceLte = filters.maxPrice]

TestRepository_findAll(filters) == Reverse(testFindMany(TestRepository_where(filters)))

TestRepository_update(id, data) ==
    [tests EXCEPT ![id] =
        [@ EXCEPT !.name = IF IsNull(data.name) THEN @ ELSE Val(data.name),
                  !.price = IF IsNull(data.price) THEN @ ELSE Val(data.price),
                  !.turnaroundDays =
                      IF IsNull(data.turnaroundDays) THEN @ ELSE Val(data.turnaroundDays),
                  !.isAvailable =
                      IF IsNull(data.isAvailable) THEN @ ELSE Val(data.isAvailable)]]

TestRepository_delete(id) == testDelete(id)

TestRepository_deleteReturned(id) == testDelete(id)[id]

TestRepository_exists(id) == ~IsNull(testFindUnique(id))

TestRepository_count(filters) == testCount(TestRepository_where(filters))

----------------------------------------------------------------------------
(* core/orders/order.repository.ts *)

NoOrderFilters ==
    [patientId |-> Null, status |-> Null, minTotalCost |-> Null, maxTotalCost |-> Null,
     readyDateFrom |-> Null, readyDateTo |-> Null, search |-> Null]

\* mutant: the supplied status is ignored
OrderRepository_create_AlwaysPending(data, totalCost, readyDate) ==
    Append(orders,
           [id |-> Len(orders) + 1,
            patientId |-> data.patientId,
            totalCost |-> totalCost,
            readyDate |-> readyDate,
            status |-> "PENDING",
            deletedAt |-> Null])

\* data.status || "PENDING"
OrderRepository_create(data, totalCost, readyDate) ==
    Append(orders,
           [id |-> Len(orders) + 1,
            patientId |-> data.patientId,
            totalCost |-> totalCost,
            readyDate |-> readyDate,
            status |-> IF IsNull(data.status) THEN "PENDING" ELSE Val(data.status),
            deletedAt |-> Null])

\* orderTests: { create: data.testIds.map((testId) => ({ testId })) }
OrderRepository_createOrderTests(id, testIds) ==
    IF id \in DOMAIN orderTests THEN [orderTests EXCEPT ![id] = testIds]
    ELSE Append(orderTests, testIds)

OrderRepository_findById(id) == orderFindUnique(id)

OrderRepository_where(filters) ==
    [NoOrderWhere EXCEPT
        !.patientId = filters.patientId,
        !.status = filters.status,
        !.totalCostGte = filters.minTotalCost,
        !.totalCostLte = filters.maxTotalCost,
        !.readyDateGte = filters.readyDateFrom,
        !.readyDateLte = filters.readyDateTo,
        !.patientName = IF Truthy(filters.search) THEN filters.search ELSE Null]

OrderRepository_findAll(filters, pagination) ==
    LET where == OrderRepository_where(filters)
    IN  [data |-> window(Reverse(orderFindMany(where)), skipOf(pagination),
                         limitOf(pagination)),
         total |-> orderCount(where),
         page |-> pageOf(pagination),
         limit |-> limitOf(pagination)]

\* mutant: the recomputed totalCost is not stored
OrderRepository_update_KeepsTotalCost(id, data, totalCost, readyDate) ==
    [orders EXCEPT ![id] =
        [@ EXCEPT !.patientId = IF IsNull(data.patientId) THEN @ ELSE Val(data.patientId),
                  !.readyDate = IF IsNull(readyDate) THEN @ ELSE Val(readyDate),
                  !.status = IF IsNull(data.status) THEN @ ELSE Val(data.status)]]

\* mutant: a COMPLETED order keeps its status
OrderRepository_update_CompletedIsFinal(id, data, totalCost, readyDate) ==
    [orders EXCEPT ![id] =
        [@ EXCEPT !.patientId = IF IsNull(data.patientId) THEN @ ELSE Val(data.patientId),
                  !.totalCost = IF IsNull(totalCost) THEN @ ELSE Val(totalCost),
                  !.readyDate = IF IsNull(readyDate) THEN @ ELSE Val(readyDate),
                  !.status = IF IsNull(data.status) \/ @ = "COMPLETED"
                             THEN @ ELSE Val(data.status)]]

OrderRepository_update(id, data, totalCost, readyDate) ==
    [orders EXCEPT ![id] =
        [@ EXCEPT !.patientId = IF IsNull(data.patientId) THEN @ ELSE Val(data.patientId),
                  !.totalCost = IF IsNull(totalCost) THEN @ ELSE Val(totalCost),
                  !.readyDate = IF IsNull(readyDate) THEN @ ELSE Val(readyDate),
                  !.status = IF IsNull(data.status) THEN @ ELSE Val(data.status)]]

\* mutant: the nested create without the deleteMany before it
OrderRepository_updateOrderTests_KeepsOld(id, data) ==
    IF IsNull(data.testIds) THEN orderTests
    ELSE [orderTests EXCEPT ![id] = @ \o Val(data.testIds)]

\* prisma.orderTest.deleteMany({ where: { orderId: id } }), then the nested create
OrderRepository_updateOrderTests(id, data) ==
    IF IsNull(data.testIds) THEN orderTests
    ELSE OrderRepository_createOrderTests(id, Val(data.testIds))

OrderRepository_delete(id) == orderDelete(id)

OrderRepository_deleteReturned(id) == orderDelete(id)[id]

\* mutant: an existence check through the base client
OrderRepository_exists_IgnoresMarker(id) == ~IsNull(rawFindUnique(orders, id))

OrderRepository_exists(id) == ~IsNull(orderFindUnique(id))

OrderRepository_count(filters) == orderCount(OrderRepository_where(filters))

----------------------------------------------------------------------------
(* Outcomes of service calls *)

Reply(op, status, id) == [op |-> op, status |-> status, id |-> id]

Ok(v) == [error |-> Null, value |-> v]
Err(e) == [error |-> Some(e), value |-> 0]
Failed(r) == ~IsNull(r.error)

----------------------------------------------------------------------------
(* lib/errors.ts and the catch block of lib/api-handler.ts *)

\* `new Error(message)`: carries no status code and no code
PlainError(message) ==
    [class |-> "Error", message |-> message, statusCode |-> Null, code |-> Null]

NotFoundError(message) ==
    [class |-> "NotFoundError", message |-> message, statusCode |-> Some(404),
     code |-> Some("NOT_FOUND")]

ConflictError(message) ==
    [class |-> "ConflictError", message |-> message, statusCode |-> Some(409),
     code |-> Some("CONFLICT")]

\* error instanceof AppError
IsAppError(e) ==
    e.class \in {"AppError", "ValidationError", "NotFoundError",
                 "UnauthorizedError", "ForbiddenError", "ConflictError"}

\* the HTTP status apiHandler renders a caught error with
apiHandler(e) == IF IsAppError(e) THEN Val(e.statusCode) ELSE 500

----------------------------------------------------------------------------
(* core/patients/patient.service.ts *)

\* getPatientById: throws Error("Patient not found") when findById returns null
PatientService_getPatientById(id) ==
    LET patient == PatientRepository_findById(id)
    IN  IF IsNull(patient) THEN Err("Patient not found") ELSE Ok(Val(patient))

\* what getPatientById throws, Null when it returns the patient
PatientService_getPatientById_thrown(id) ==
    IF IsNull(PatientRepository_findById(id))
    THEN Some(PlainError("Patient not found"))
    ELSE Null

CreatePatient(data) ==
    LET existingPatient == PatientRepository_findDuplicate(data)
    IN  /\ IF ~IsNull(existingPatient)
           THEN /\ result' = Reply("createPatient", "Conflict", Val(existingPatient).id)
                /\ UNCHANGED patients
           ELSE /\ Len(patients) < MaxPatients
                /\ patients' = PatientRepository_create(data)
                /\ result' = Reply("createPatient", "ok", Len(patients) + 1)
        /\ UNCHANGED <<tests, orders, orderTests, now, matcherVars, inflight>>

\* mutant: updatePatient that refuses a change producing a duplicate
UpdatePatient_ChecksDuplicate(id, data) ==
    LET newName == IF IsNull(data.name) THEN patients[id].name ELSE Val(data.name)
        newDob == IF IsNull(data.dob) THEN patients[id].dob ELSE Val(data.dob)
        clash == \E j \in 1..Len(patients) :
                     /\ j # id
                     /\ IsNull(patients[j].deletedAt)
                     /\ utcDayStart(patients[j].dob) = utcDayStart(newDob)
                     /\ namesMatchWordBased(newName, patients[j].name)
    IN  /\ IF ~PatientRepository_exists(id)
           THEN /\ result' = Reply("updatePatient", "Patient not found", id)
                /\ UNCHANGED patients
           ELSE IF clash
           THEN /\ result' = Reply("updatePatient", "Conflict", id)
                /\ UNCHANGED patients
           ELSE /\ patients' = PatientRepository_update(id, data)
                /\ result' = Reply("updatePatient", "ok", id)
        /\ UNCHANGED <<tests, orders, orderTests, now, matcherVars, inflight>>

UpdatePatient(id, data) ==
    /\ IF ~PatientRepository_exists(id)
       THEN /\ result' = Reply("updatePatient", "Patient not found", id)
            /\ UNCHANGED patients
       ELSE /\ patients' = PatientRepository_update(id, data)
            /\ result' = Reply("updatePatient", "ok", id)
    /\ UNCHANGED <<tests, orders, orderTests, now, matcherVars, inflight>>

\* mutant: deletePatient that refuses a patient live orders refer to
DeletePatient_RefusesReferenced(id) ==
    LET referenced == \E o \in 1..Len(orders) :
                          IsNull(orders[o].deletedAt) /\ orders[o].patientId = id
    IN  /\ IF ~PatientRepository_exists(id)
           THEN /\ result' = Reply("deletePatient", "Patient not found", id)
                /\ UNCHANGED patients
           ELSE IF referenced
           THEN /\ result' = Reply("deletePatient", "Conflict", id)
                /\ UNCHANGED patients
           ELSE /\ patients' = PatientRepository_delete(id)
                /\ result' = Reply("deletePatient", "ok", id)
        /\ UNCHANGED <<tests, orders, orderTests, now, matcherVars, inflight>>

DeletePatient(id) ==
    /\ IF ~PatientRepository_exists(id)
       THEN /\ result' = Reply("deletePatient", "Patient not found", id)
            /\ UNCHANGED patients
       ELSE /\ patients' = PatientRepository_delete(id)
            /\ result' = Reply("deletePatient", "ok", id)
    /\ UNCHANGED <<tests, orders, orderTests, now, matcherVars, inflight>>

----------------------------------------------------------------------------
(* core/tests/test.service.ts *)

TestService_getTestsByIds(ids) == TestRepository_findByIds(ids)

\* what getTestById throws, Null when it returns the test
TestService_getTestById_thrown(id) ==
    IF IsNull(TestRepository_findById(id))
    THEN Some(PlainError("Test not found"))
    ELSE Null

CreateTest(data) ==
    /\ Len(tests) < MaxTests
    /\ tests' = TestRepository_create(data)
    /\ result' = Reply("createTest", "ok", Len(tests) + 1)
    /\ UNCHANGED <<patients, orders, orderTests, now, matcherVars, inflight>>

UpdateTest(id, data) ==
    /\ IF ~TestRepository_exists(id)
       THEN /\ result' = Reply("updateTest", "Test not found", id)
            /\ UNCHANGED tests
       ELSE /\ tests' = TestRepository_update(id, data)
            /\ result' = Reply("updateTest", "ok", id)
    /\ UNCHANGED <<patients, orders, orderTests, now, matcherVars, inflight>>

DeleteTest(id) ==
    /\ IF ~TestRepository_exists(id)
       THEN /\ result' = Reply("deleteTest", "Test not found", id)
            /\ UNCHANGED tests
       ELSE /\ tests' = TestRepository_delete(id)
            /\ result' = Reply("deleteTest", "ok", id)
    /\ UNCHANGED <<patients, orders, orderTests, now, matcherVars, inflight>>

----------------------------------------------------------------------------
(* core/orders/order.service.ts *)

pricesOf(rows) == [i \in 1..Len(rows) |-> rows[i].price]
turnaroundsOf(rows) == [i \in 1..Len(rows) |-> rows[i].turnaroundDays]

\* mutant: no availability check
calculateTotalCost_NoAvailabilityCheck(testIds) ==
    LET fetched == TestService_getTestsByIds(testIds)
    IN  IF Len(fetched) # Len(testIds) THEN Err("One or more tests not found")
        ELSE Ok(SumSeq(pricesOf(fetched)))

calculateTotalCost(testIds) ==
    LET fetched == TestService_getTestsByIds(testIds)
        unavailableTests == {i \in 1..Len(fetched) : ~fetched[i].isAvailable}
    IN  IF Len(fetched) # Len(testIds) THEN Err("One or more tests not found")
        ELSE IF unavailableTests # {} THEN Err("The following tests are not available")
        ELSE Ok(SumSeq(pricesOf(fetched)))

\* mutant: the first test's turnaround instead of the maximum
calculateReadyDate_FirstTurnaround(testIds) ==
    LET fetched == TestService_getTestsByIds(testIds)
    IN  IF Len(fetched) # Len(testIds) THEN Err("One or more tests not found")
        ELSE Ok(now + Head(turnaroundsOf(fetched)) * TicksPerDay)

\* readyDate = new Date(); readyDate.setDate(readyDate.getDate() + maxTurnaroundDays)
calculateReadyDate(testIds) ==
    LET fetched == TestService_getTestsByIds(testIds)
    IN  IF Len(fetched) # Len(testIds) THEN Err("One or more tests not found")
        ELSE Ok(now + MaxSeq(turnaroundsOf(fetched)) * TicksPerDay)

\* the first failure met by createOrder, in the order of its awaits
createOrderChecks(data) ==
    LET patient == PatientService_getPatientById(data.patientId)
        totalCost == calculateTotalCost(data.testIds)
        readyDate == calculateReadyDate(data.testIds)
    IN  IF Failed(patient) THEN patient
        ELSE IF Failed(totalCost) THEN totalCost
        ELSE IF Failed(readyDate) THEN readyDate
        ELSE Ok([totalCost |-> totalCost.value, readyDate |-> readyDate.value])

\* what getOrderById throws, Null when it returns the order
OrderService_getOrderById_thrown(id) ==
    IF IsNull(OrderRepository_findById(id))
    THEN Some(PlainError("Order not found"))
    ELSE Null

CreateOrder(data) ==
    LET checked == createOrderChecks(data)
    IN  /\ IF Failed(checked)
           THEN /\ result' = Reply("createOrder", Val(checked.error), 0)
                /\ UNCHANGED <<orders, orderTests>>
           ELSE /\ Len(orders) < MaxOrders
                /\ orders' = OrderRepository_create(data, checked.value.totalCost,
                                                    checked.value.readyDate)
                /\ orderTests' = OrderRepository_createOrderTests(Len(orders) + 1,
                                                                  data.testIds)
                /\ result' = Reply("createOrder", "ok", Len(orders) + 1)
        /\ UNCHANGED <<patients, tests, now, matcherVars, inflight>>

\* the first failure met by updateOrder, in the order of its awaits
updateOrderChecks(id, data) ==
    LET patient == IF IsNull(data.patientId) THEN Ok(0)
                   ELSE PatientService_getPatientById(Val(data.patientId))
        totalCost == IF IsNull(data.testIds) THEN Ok(Null)
                     ELSE LET c == calculateTotalCost(Val(data.testIds))
                          IN  IF Failed(c) THEN c ELSE Ok(Some(c.value))
        readyDate == IF IsNull(data.testIds) THEN Ok(Null)
                     ELSE LET d == calculateReadyDate(Val(data.testIds))
                          IN  IF Failed(d) THEN d ELSE Ok(Some(d.value))
    IN  IF ~OrderRepository_exists(id) THEN Err("Order not found")
        ELSE IF Failed(patient) THEN patient
        ELSE IF Failed(totalCost) THEN totalCost
        ELSE IF Failed(readyDate) THEN readyDate
        ELSE Ok([totalCost |-> totalCost.value, readyDate |-> readyDate.value])

UpdateOrder(id, data) ==
    LET checked == updateOrderChecks(id, data)
    IN  /\ IF Failed(checked)
           THEN /\ result' = Reply("updateOrder", Val(checked.error), id)
                /\ UNCHANGED <<orders, orderTests>>
           ELSE /\ orderTests' = OrderRepository_updateOrderTests(id, data)
                /\ orders' = OrderRepository_update(id, data, checked.value.totalCost,
                                                    checked.value.readyDate)
                /\ result' = Reply("updateOrder", "ok", id)
        /\ UNCHANGED <<patients, tests, now, matcherVars, inflight>>

DeleteOrder(id) ==
    /\ IF ~OrderRepository_exists(id)
       THEN /\ result' = Reply("deleteOrder", "Order not found", id)
            /\ UNCHANGED orders
       ELSE /\ orders' = OrderRepository_delete(id)
            /\ result' = Reply("deleteOrder", "ok", id)
    /\ UNCHANGED <<patients, tests, orderTests, now, matcherVars, inflight>>

\* time passes between requests
Tick ==
    /\ now < MaxNow
    /\ now' = now + 1
    /\ UNCHANGED <<store, result, matcherVars, inflight>>

----------------------------------------------------------------------------
(* Requests: the validated DTOs the services are driven with *)

PatientIds == 1..(MaxPatients + 1)
StorePatientIds == 1..(MaxStorePatients + 1)
TestIds == 1..(MaxTests + 1)
OrderIds == 1..(MaxOrders + 1)

PatientDTO(name, dob) ==
    [name |-> name, dob |-> dob, phone |-> Null, gender |-> "MALE", address |-> Null]

NoPatientPatch ==
    [name |-> Null, dob |-> Null, phone |-> Null, gender |-> Null, address |-> Null]

TestDTO(name, price, turnaroundDays, isAvailable) ==
    [name |-> name, price |-> price, turnaroundDays |-> turnaroundDays,
     isAvailable |-> isAvailable]

NoTestPatch ==
    [name |-> Null, price |-> Null, turnaroundDays |-> Null, isAvailable |-> Null]

NoOrderPatch == [patientId |-> Null, testIds |-> Null, status |-> Null]

\* the requests of the store-wide specification
StorePatientDTOs == {PatientDTO(<<"a">>, 0)}
StorePatientPatches == {[NoPatientPatch EXCEPT !.name = Some(<<"b">>)]}
StoreTestDTOs == {TestDTO(<<"a">>, 1, 0, Null)}
StoreTestPatches == {[NoTestPatch EXCEPT !.isAvailable = Some(FALSE)]}
StoreOrderDTOs ==
    {[patientId |-> p, testIds |-> <<1>>, status |-> Null] : p \in StorePatientIds}
StoreOrderPatches == {[NoOrderPatch EXCEPT !.status = Some("COMPLETED")]}

\* the requests of the order specification
OrderPatientDTOs == {PatientDTO(<<"a">>, 0)}
OrderTestDTOs == {TestDTO(<<"a">>, 1, 0, Null), TestDTO(<<"b">>, 2, 1, Some(FALSE))}
OrderTestPatches == {[NoTestPatch EXCEPT !.price = Some(3), !.isAvailable = Some(TRUE)]}
OrderTestIdLists == {<<1>>, <<2>>, <<1, 2>>}
OrderOrderDTOs ==
    {[patientId |-> p, testIds |-> t, status |-> Null] :
        p \in StorePatientIds, t \in OrderTestIdLists}
OrderOrderPatches ==
    {[patientId |-> p, testIds |-> t, status |-> Null] :
        p \in {Null} \cup {Some(i) : i \in StorePatientIds},
        t \in {Null} \cup {Some(l) : l \in OrderTestIdLists}} \ {NoOrderPatch}

----------------------------------------------------------------------------
(* The store-wide specification: every service operation, one request at a time *)

StoreInit ==
    /\ patients = <<>>
    /\ tests = <<>>
    /\ orders = <<>>
    /\ orderTests = <<>>
    /\ now = 0
    /\ result = Reply("none", "ok", 0)

Init ==
    /\ StoreInit
    /\ InflightInit
    /\ ListingInit
    /\ name1 = <<>>
    /\ name2 = <<>>
    /\ matched = Null

Next ==
    \/ \E data \in StorePatientDTOs :
            Len(patients) < MaxStorePatients /\ CreatePatient(data)
    \/ \E id \in StorePatientIds, data \in StorePatientPatches : UpdatePatient(id, data)
    \/ \E id \in StorePatientIds : DeletePatient(id)
    \/ \E data \in StoreTestDTOs : CreateTest(data)
    \/ \E id \in TestIds, data \in StoreTestPatches : UpdateTest(id, data)
    \/ \E id \in TestIds : DeleteTest(id)
    \/ \E data \in StoreOrderDTOs : CreateOrder(data)
    \/ \E id \in OrderIds, data \in StoreOrderPatches : UpdateOrder(id, data)
    \/ \E id \in OrderIds : DeleteOrder(id)
    \/ Tick

Spec == Init /\ [][Next]_vars

----------------------------------------------------------------------------
(* The order specification: orders over a catalogue of priced tests *)

OrdersNext ==
    \/ \E data \in OrderPatientDTOs :
            Len(patients) < MaxStorePatients /\ CreatePatient(data)
    \/ \E id \in StorePatientIds : DeletePatient(id)
    \/ \E data \in OrderTestDTOs : CreateTest(data)
    \/ \E id \in TestIds, data \in OrderTestPatches : UpdateTest(id, data)
    \/ \E id \in TestIds : DeleteTest(id)
    \/ \E data \in OrderOrderDTOs : CreateOrder(data)
    \/ \E id \in OrderIds, data \in OrderOrderPatches : UpdateOrder(id, data)
    \/ Tick

SpecOrders == Init /\ [][OrdersNext]_vars

----------------------------------------------------------------------------
(* The matcher specification: namesMatchWordBased on every pair of names *)

NamesInit == StoreInit /\ InflightInit /\ ListingInit /\ MatcherInit

NamesNext == CallNamesMatch /\ UNCHANGED <<store, now, result, inflight>>

SpecNames == NamesInit /\ [][NamesNext]_vars

----------------------------------------------------------------------------
(* The patient specification: registration with the duplicate check *)

PatientNames == {<<"a", " ", "b">>, <<"a", " ", "a">>, <<"A">>, <<"b", " ">>, <<" ">>}
PatientDobs == {0, 1, TicksPerDay}
PatientDTOs == {PatientDTO(n, d) : n \in PatientNames, d \in PatientDobs}
PatientPatches ==
    {[NoPatientPatch EXCEPT !.name = Some(<<" ", "a">>)],
     [NoPatientPatch EXCEPT !.dob = Some(1)]}

PatientsNext ==
    \/ \E data \in PatientDTOs : CreatePatient(data)
    \/ \E id \in PatientIds, data \in PatientPatches : UpdatePatient(id, data)
    \/ \E id \in PatientIds : DeletePatient(id)
    \/ Tick

SpecPatients == Init /\ [][PatientsNext]_vars

----------------------------------------------------------------------------
(* The sequential registration specification: createPatient calls run one    *)
(* at a time, with deletes and the clock, and no updatePatient.              *)

SequentialCreatesNext ==
    \/ \E data \in PatientDTOs : CreatePatient(data)
    \/ \E id \in PatientIds : DeletePatient(id)
    \/ Tick

SpecSequentialCreates == Init /\ [][SequentialCreatesNext]_vars

----------------------------------------------------------------------------
(* The registration specification: createPatient calls that overlap.        *)
(* createPatient awaits findDuplicate and then awaits repository.create;     *)
(* another request can run between the two.                                  *)

RacePatientDTOs ==
    {PatientDTO(<<"a">>, 0), PatientDTO(<<"a", " ", "b">>, 0), PatientDTO(<<"b">>, 1)}

PendingCreates == Cardinality({p \in Slots : calls[p].pc = "createPatient:create"})

\* createPatient up to the end of `await this.repository.findDuplicate(...)`
BeginCreatePatient(p, data) ==
    LET existingPatient == PatientRepository_findDuplicate(data)
    IN  /\ calls[p].pc = "idle"
        /\ IF ~IsNull(existingPatient)
           THEN /\ result' = Reply("createPatient", "Conflict", Val(existingPatient).id)
                /\ UNCHANGED calls
           ELSE /\ Len(patients) + PendingCreates < MaxPatients
                /\ calls' = [calls EXCEPT ![p] =
                                [Idle EXCEPT !.pc = "createPatient:create",
                                             !.data = Some(data)]]
                /\ UNCHANGED result
        /\ UNCHANGED <<store, now, matcherVars, seen, listing>>

\* mutant: the insert looks for a duplicate again
FinishCreatePatient_Rechecks(p) ==
    LET data == Val(calls[p].data)
        existingPatient == PatientRepository_findDuplicate(data)
    IN  /\ calls[p].pc = "createPatient:create"
        /\ IF ~IsNull(existingPatient)
           THEN /\ result' = Reply("createPatient", "Conflict", Val(existingPatient).id)
                /\ UNCHANGED patients
           ELSE /\ patients' = PatientRepository_create(data)
                /\ result' = Reply("createPatient", "ok", Len(patients) + 1)
        /\ calls' = [calls EXCEPT ![p] = Idle]
        /\ UNCHANGED <<tests, orders, orderTests, now, matcherVars, seen, listing>>

\* createPatient from `return await this.repository.create(validatedData)`
FinishCreatePatient(p) ==
    LET data == Val(calls[p].data)
    IN  /\ calls[p].pc = "createPatient:create"
        /\ patients' = PatientRepository_create(data)
        /\ result' = Reply("createPatient", "ok", Len(patients) + 1)
        /\ calls' = [calls EXCEPT ![p] = Idle]
        /\ UNCHANGED <<tests, orders, orderTests, now, matcherVars, seen, listing>>

RegistrationNext ==
    \/ \E p \in Slots, data \in RacePatientDTOs : BeginCreatePatient(p, data)
    \/ \E p \in Slots : FinishCreatePatient(p)
    \/ \E id \in PatientIds : DeletePatient(id)

SpecRegistration == Init /\ [][RegistrationNext]_vars

----------------------------------------------------------------------------
(* The order-update specification: updateOrder with testIds, step by step.  *)
(* OrderRepository.update awaits orderTest.deleteMany and then awaits        *)
(* order.update with the nested create; no transaction spans the two.        *)

UpdateTestDTOs == {TestDTO(<<"a">>, 1, 0, Null)}
UpdateOrderDTOs == {[patientId |-> 1, testIds |-> <<1>>, status |-> Null]}
UpdateOrderPatches ==
    {[NoOrderPatch EXCEPT !.testIds = Some(t)] : t \in {<<2>>, <<1, 2>>}}

\* updateOrder up to the end of `await prisma.orderTest.deleteMany(...)`; the
\* reads before it (exists, getPatientById, getTestsByIds) are taken in one step
BeginUpdateOrder(p, id, data) ==
    LET checked == updateOrderChecks(id, data)
    IN  /\ calls[p].pc = "idle"
        /\ ~IsNull(data.testIds)
        /\ IF Failed(checked)
           THEN /\ result' = Reply("updateOrder", Val(checked.error), id)
                /\ UNCHANGED <<orderTests, calls>>
           ELSE /\ orderTests' = [orderTests EXCEPT ![id] = <<>>]
                /\ calls' = [calls EXCEPT ![p] =
                                [pc |-> "updateOrder:update", id |-> id,
                                 data |-> Some(data), computed |-> Some(checked.value),
                                 prior |-> Some(orderTests[id])]]
                /\ UNCHANGED result
        /\ UNCHANGED <<patients, tests, orders, now, matcherVars, seen, listing>>

\* `await prisma.order.update(...)` with orderTests: { create: [...] }
WriteUpdateOrder(p) ==
    LET id == calls[p].id
        data == Val(calls[p].data)
        computed == Val(calls[p].computed)
    IN  /\ calls[p].pc = "updateOrder:update"
        /\ orders' = OrderRepository_update(id, data, computed.totalCost,
                                            computed.readyDate)
        /\ orderTests' = [orderTests EXCEPT ![id] = @ \o Val(data.testIds)]
        /\ result' = Reply("updateOrder", "ok", id)
        /\ calls' = [calls EXCEPT ![p] = Idle]
        /\ UNCHANGED <<patients, tests, now, matcherVars, seen, listing>>

\* `await prisma.order.update(...)` rejects (the database call fails)
FailUpdateOrder(p) ==
    /\ calls[p].pc = "updateOrder:update"
    /\ result' = Reply("updateOrder", "Database error", calls[p].id)
    /\ calls' = [calls EXCEPT ![p] = Idle]
    /\ UNCHANGED <<store, now, matcherVars, seen, listing>>

\* getOrderById(id, true): the order with its OrderTest rows
ReadOrder(id) ==
    LET order == OrderRepository_findById(id)
    IN  /\ IF IsNull(order)
           THEN /\ result' = Reply("getOrderById", "Order not found", id)
                /\ seen' = Null
           ELSE /\ result' = Reply("getOrderById", "ok", id)
                /\ seen' = Some(orderTests[id])
        /\ UNCHANGED <<store, now, matcherVars, calls, listing>>

OrderUpdateNext ==
    \/ \E data \in StorePatientDTOs :
            Len(patients) < MaxStorePatients /\ CreatePatient(data)
    \/ \E data \in UpdateTestDTOs : CreateTest(data)
    \/ \E data \in UpdateOrderDTOs : CreateOrder(data)
    \/ \E p \in Slots, id \in OrderIds, data \in UpdateOrderPatches :
            BeginUpdateOrder(p, id, data)
    \/ \E p \in Slots : WriteUpdateOrder(p)
    \/ \E p \in Slots : FailUpdateOrder(p)
    \/ \E id \in OrderIds : ReadOrder(id)

SpecOrderUpdate == Init /\ [][OrderUpdateNext]_vars

----------------------------------------------------------------------------
(* The update specification: partial updates of the three entities, and the *)
(* status an order is given at creation and by updates                       *)

OrderStatuses == {"PENDING", "PROCESSING", "COMPLETED", "CANCELLED"}

EditPatientPatches ==
    {[NoPatientPatch EXCEPT !.name = Some(<<"b">>)],
     [NoPatientPatch EXCEPT !.dob = Some(1), !.phone = Some(Some(<<"a">>))]}
EditTestDTOs == {TestDTO(<<"a">>, 1, 1, Null)}
EditTestPatches ==
    {[NoTestPatch EXCEPT !.price = Some(2)],
     [NoTestPatch EXCEPT !.name = Some(<<"b">>), !.turnaroundDays = Some(0)]}
EditOrderDTOs ==
    {[patientId |-> 1, testIds |-> <<1>>, status |-> st] :
        st \in {Null} \cup {Some(v) : v \in OrderStatuses}}
EditOrderPatches ==
    {[NoOrderPatch EXCEPT !.status = Some(v)] : v \in OrderStatuses}
    \cup {[NoOrderPatch EXCEPT !.patientId = Some(1)],
          [NoOrderPatch EXCEPT !.testIds = Some(<<1>>)],
          [NoOrderPatch EXCEPT !.testIds = Some(<<2>>), !.status = Some("PROCESSING")]}

UpdatesNext ==
    \/ \E data \in StorePatientDTOs :
            Len(patients) < MaxStorePatients /\ CreatePatient(data)
    \/ \E id \in StorePatientIds, data \in EditPatientPatches : UpdatePatient(id, data)
    \/ \E data \in EditTestDTOs : CreateTest(data)
    \/ \E id \in TestIds, data \in EditTestPatches : UpdateTest(id, data)
    \/ \E data \in EditOrderDTOs : CreateOrder(data)
    \/ \E id \in OrderIds, data \in EditOrderPatches : UpdateOrder(id, data)
    \/ \E id \in OrderIds : DeleteOrder(id)
    \/ Tick

SpecUpdates == Init /\ [][UpdatesNext]_vars

----------------------------------------------------------------------------
(* The pagination specification: extractPaginationParams on query strings *)

MaxParamLen == 3
ParamChars == {"-", "0", "1", "5", "x"}

RECURSIVE ParamsUpTo(_)
ParamsUpTo(n) ==
    IF n = 0 THEN {<<>>}
    ELSE LET shorter == ParamsUpTo(n - 1)
         IN  shorter \cup
             {Append(s, c) : s \in {t \in shorter : Len(t) = n - 1}, c \in ParamChars}

\* searchParams.get returns null for an absent parameter
ParamValues == {Null} \cup {Some(s) : s \in ParamsUpTo(MaxParamLen)}

PaginationInit ==
    /\ StoreInit
    /\ InflightInit
    /\ name1 = <<>>
    /\ name2 = <<>>
    /\ matched = Null
    /\ query \in [page : ParamValues, limit : ParamValues]
    /\ paging = Null

PaginationNext == ExtractPagination

SpecPagination == PaginationInit /\ [][PaginationNext]_vars

----------------------------------------------------------------------------
(* The order-write specification: createOrder and updateOrder calls that     *)
(* overlap with updateTest and deleteTest.  Both services await their reads  *)
(* (getPatientById, calculateTotalCost, calculateReadyDate) and then await   *)
(* the repository write; another request can run between the two.            *)

WriteTestDTOs == {TestDTO(<<"a">>, 1, 0, Null)}
WriteTestPatches == {[NoTestPatch EXCEPT !.isAvailable = Some(FALSE)]}
WriteOrderDTOs == {[patientId |-> 1, testIds |-> <<1>>, status |-> Null]}
WriteOrderPatches ==
    {[NoOrderPatch EXCEPT !.testIds = Some(t)] : t \in {<<2>>, <<1, 2>>}}

PendingOrderCreates == Cardinality({p \in Slots : calls[p].pc = "createOrder:create"})

\* createOrder up to the end of `await this.calculateReadyDate(...)`
BeginCreateOrder(p, data) ==
    LET checked == createOrderChecks(data)
    IN  /\ calls[p].pc = "idle"
        /\ IF Failed(checked)
           THEN /\ result' = Reply("createOrder", Val(checked.error), 0)
                /\ UNCHANGED calls
           ELSE /\ Len(orders) + PendingOrderCreates < MaxOrders
                /\ calls' = [calls EXCEPT ![p] =
                                [Idle EXCEPT !.pc = "createOrder:create",
                                             !.data = Some(data),
                                             !.computed = Some(checked.value)]]
                /\ UNCHANGED result
        /\ UNCHANGED <<store, now, matcherVars, seen, listing>>

\* `await this.repository.create(validatedData, totalCost, readyDate)`
WriteCreateOrder(p) ==
    LET data == Val(calls[p].data)
        computed == Val(calls[p].computed)
    IN  /\ calls[p].pc = "createOrder:create"
        /\ orders' = OrderRepository_create(data, computed.totalCost, computed.readyDate)
        /\ orderTests' = OrderRepository_createOrderTests(Len(orders) + 1, data.testIds)
        /\ result' = Reply("createOrder", "ok", Len(orders) + 1)
        /\ calls' = [calls EXCEPT ![p] = Idle]
        /\ UNCHANGED <<patients, tests, now, matcherVars, seen, listing>>

OrderWriteNext ==
    \/ \E data \in StorePatientDTOs :
            Len(patients) < MaxStorePatients /\ CreatePatient(data)
    \/ \E data \in WriteTestDTOs : CreateTest(data)
    \/ \E id \in TestIds, data \in WriteTestPatches : UpdateTest(id, data)
    \/ \E id \in TestIds : DeleteTest(id)
    \/ \E p \in Slots, data \in WriteOrderDTOs : BeginCreateOrder(p, data)
    \/ \E p \in Slots : WriteCreateOrder(p)
    \/ \E p \in Slots, id \in OrderIds, data \in WriteOrderPatches :
            BeginUpdateOrder(p, id, data)
    \/ \E p \in Slots : WriteUpdateOrder(p)

SpecOrderWrite == Init /\ [][OrderWriteNext]_vars

----------------------------------------------------------------------------
(* The repeated-ids specification: createOrder and updateOrder, one request  *)
(* at a time, with testIds lists that name a test more than once.  The       *)
(* schemas accept any non-empty array of non-empty strings.                  *)

RepeatTestDTOs == {TestDTO(<<"a">>, 1, 0, Null)}
RepeatTestPatches == {[NoTestPatch EXCEPT !.isAvailable = Some(FALSE)]}
RepeatTestIdLists == {<<1>>, <<1, 1>>, <<1, 2>>, <<2, 1, 2>>}
RepeatOrderDTOs ==
    {[patientId |-> 1, testIds |-> t, status |-> Null] : t \in RepeatTestIdLists}
RepeatOrderPatches ==
    {[NoOrderPatch EXCEPT !.testIds = Some(t)] : t \in RepeatTestIdLists}

RepeatedIdsNext ==
    \/ \E data \in StorePatientDTOs :
            Len(patients) < MaxStorePatients /\ CreatePatient(data)
    \/ \E data \in RepeatTestDTOs : CreateTest(data)
    \/ \E id \in TestIds, data \in RepeatTestPatches : UpdateTest(id, data)
    \/ \E id \in TestIds : DeleteTest(id)
    \/ \E data \in RepeatOrderDTOs : CreateOrder(data)
    \/ \E id \in OrderIds, data \in RepeatOrderPatches : UpdateOrder(id, data)
    \/ Tick

SpecRepeatedIds == Init /\ [][RepeatedIdsNext]_vars

----------------------------------------------------------------------------
(* Read requests the properties below range over *)

PatientFilterSamples ==
    {[NoPatientFilters EXCEPT !.name = n, !.gender = g, !.search = q] :
        n \in {Null, Some(<<"a">>)}, g \in {Null, Some("MALE")}, q \in {Null, Some(<<"b">>)}}

TestFilterSamples ==
    {[NoTestFilters EXCEPT !.name = n, !.isAvailable = a, !.minPrice = m] :
        n \in {Null, Some(<<"a">>)}, a \in {Null, Some(TRUE), Some(FALSE)},
        m \in {Null, Some(1)}}

OrderFilterSamples ==
    {[NoOrderFilters EXCEPT !.patientId = p, !.status = st, !.search = q] :
        p \in {Null, Some(1)}, st \in {Null, Some("PENDING")}, q \in {Null, Some(<<"a">>)}}

PaginationSamples ==
    {Null, Some([page |-> 1, limit |-> 1]), Some([page |-> 2, limit |-> 1])}

HasMarker(table, id) == id \in 1..Len(table) /\ ~IsNull(table[id].deletedAt)
IsLive(table, id) == id \in 1..Len(table) /\ IsNull(table[id].deletedAt)

IdsIn(rows) == {rows[i].id : i \in 1..Len(rows)}

----------------------------------------------------------------------------
(* C1: soft-deleted rows and the default read paths *)

PatientHidden(id) ==
    /\ IsNull(PatientRepository_findById(id))
    /\ \A f \in PatientFilterSamples, pg \in PaginationSamples :
           id \notin IdsIn(PatientRepository_findAll(f, pg).data)
    /\ ~IsNull(rawFindUnique(patients, id))
    /\ ~IsNull(Val(rawFindUnique(patients, id)).deletedAt)

TestHidden(id) ==
    /\ IsNull(TestRepository_findById(id))
    /\ \A f \in TestFilterSamples : id \notin IdsIn(TestRepository_findAll(f))
    /\ ~IsNull(rawFindUnique(tests, id))
    /\ ~IsNull(Val(rawFindUnique(tests, id)).deletedAt)

OrderHidden(id) ==
    /\ IsNull(OrderRepository_findById(id))
    /\ \A f \in OrderFilterSamples, pg \in PaginationSamples :
           id \notin IdsIn(OrderRepository_findAll(f, pg).data)
    /\ ~IsNull(rawFindUnique(orders, id))
    /\ ~IsNull(Val(rawFindUnique(orders, id)).deletedAt)

\* the row a successful delete reported carries the deletion marker
DeleteReplyMarked ==
    /\ result.status = "ok" /\ result.op = "deletePatient" => HasMarker(patients, result.id)
    /\ result.status = "ok" /\ result.op = "deleteTest" => HasMarker(tests, result.id)
    /\ result.status = "ok" /\ result.op = "deleteOrder" => HasMarker(orders, result.id)

\* every row that carries the deletion marker is hidden from the default reads
MarkedRowsHidden ==
    /\ \A id \in StorePatientIds : HasMarker(patients, id) => PatientHidden(id)
    /\ \A id \in TestIds : HasMarker(tests, id) => TestHidden(id)
    /\ \A id \in OrderIds : HasMarker(orders, id) => OrderHidden(id)

\* no step removes a deletion marker
MarkerKept ==
    /\ \A id \in StorePatientIds : HasMarker(patients, id) => HasMarker(patients, id)'
    /\ \A id \in TestIds : HasMarker(tests, id) => HasMarker(tests, id)'
    /\ \A id \in OrderIds : HasMarker(orders, id) => HasMarker(orders, id)'

\* C1: once delete(id) has succeeded on a Patient, Test or Order, in the state it
\* leaves and in every later state findById(id) through the extended client is
\* null, no findAll result under any filter or page contains the row, and the
\* base client still returns the row with deletedAt set.
C1_SoftDeletedHidden ==
    /\ [](DeleteReplyMarked /\ MarkedRowsHidden)
    /\ [][MarkerKept]_vars

\* a row of each kind has been soft-deleted, and a delete has just succeeded
C1_Witness ==
    /\ \E id \in StorePatientIds : HasMarker(patients, id)
    /\ \E id \in TestIds : HasMarker(tests, id)
    /\ \E id \in OrderIds : HasMarker(orders, id)
    /\ result = Reply("deleteOrder", "ok", 1)

----------------------------------------------------------------------------
(* C2: count and total against the live rows *)

LivePatientsMatching(f) ==
    {id \in 1..Len(patients) :
        IsNull(patients[id].deletedAt)
            /\ patientMatches(patients[id], PatientRepository_where(f))}

LiveTestsMatching(f) ==
    {id \in 1..Len(tests) :
        IsNull(tests[id].deletedAt) /\ testMatches(tests[id], TestRepository_where(f))}

LiveOrdersMatching(f) ==
    {id \in 1..Len(orders) :
        IsNull(orders[id].deletedAt) /\ orderMatches(orders[id], OrderRepository_where(f))}

\* C2: for each entity kind count(filter), and the total of findAll(filter,
\* pagination), is the number of non-deleted rows matching the filter.
C2_CountExcludesDeleted ==
    /\ \A f \in PatientFilterSamples :
           /\ PatientRepository_count(f) = Cardinality(LivePatientsMatching(f))
           /\ \A pg \in PaginationSamples :
                  PatientRepository_findAll(f, pg).total = Cardinality(LivePatientsMatching(f))
    /\ \A f \in TestFilterSamples :
           TestRepository_count(f) = Cardinality(LiveTestsMatching(f))
    /\ \A f \in OrderFilterSamples :
           /\ OrderRepository_count(f) = Cardinality(LiveOrdersMatching(f))
           /\ \A pg \in PaginationSamples :
                  OrderRepository_findAll(f, pg).total = Cardinality(LiveOrdersMatching(f))

----------------------------------------------------------------------------
(* C3: exists *)

----------------------------------------------------------------------------
(* Orders: what the properties below say about a list of test ids *)

Distinct(ids) == \A i, j \in 1..Len(ids) : i # j => ids[i] # ids[j]
AllLive(ids) == \A i \in 1..Len(ids) : IsLive(tests, ids[i])
AllAvailable(ids) == \A i \in 1..Len(ids) : tests[ids[i]].isAvailable
SomeStoredUnavailable(ids) ==
    \E i \in 1..Len(ids) : ids[i] \in 1..Len(tests) /\ ~tests[ids[i]].isAvailable
SumOfPricesIn(table, ids) == SumSeq([i \in 1..Len(ids) |-> table[ids[i]].price])
SumOfPrices(ids) == SumOfPricesIn(tests, ids)
MaxTurnaround(ids) == MaxSeq([i \in 1..Len(ids) |-> tests[ids[i]].turnaroundDays])
OneRowPerId(rows, ids) == Len(rows) = Len(ids) /\ SeqToSet(rows) = SeqToSet(ids)

\* the step leaves the reply of a call to op
StepOf(op) == result'.op = op

SuppliesTestIds(data) == ~IsNull(data.testIds)
SuppliesPatientId(data) == ~IsNull(data.patientId)

----------------------------------------------------------------------------
(* C4: totalCost against the prices of the order's tests *)

\* C4 as stated: in every reachable state each order's totalCost is the sum of the
\* current prices of the tests in its OrderTest rows.
C4_TotalCostIsCurrentSum ==
    \A o \in 1..Len(orders) : orders[o].totalCost = SumOfPrices(orderTests[o])

\* the step writes the OrderTest rows of order o
WritesTestSet(o) ==
    \/ o \notin 1..Len(orders)
    \/ \E data \in OrderOrderPatches :
           SuppliesTestIds(data) /\ result' = Reply("updateOrder", "ok", o)
               /\ UpdateOrder(o, data)

\* C4, amended: a step that writes an order's OrderTest rows (createOrder, or
\* updateOrder with testIds) stores as totalCost the sum of the prices those tests
\* have at that moment, and no other step changes totalCost: updateTest and
\* deleteTest leave it as stored.
C4_TotalCostSetWithTestSet ==
    [][\A o \in 1..Len(orders') :
           IF WritesTestSet(o)
           THEN orders'[o].totalCost = SumOfPricesIn(tests', orderTests'[o])
           ELSE orders'[o].totalCost = orders[o].totalCost]_vars

\* an order rewritten after a price change, holding the new prices' sum
C4_Witness ==
    /\ result = Reply("updateOrder", "ok", 1)
    /\ Len(tests) = 2 /\ tests[1].price = 3 /\ tests[2].price = 3
    /\ orderTests[1] = <<1, 2>>
    /\ orders[1].totalCost = 6

----------------------------------------------------------------------------
(* C5: createOrder on a valid request *)

ValidOrderRequest(patientId, testIds) ==
    /\ IsLive(patients, patientId)
    /\ Distinct(testIds)
    /\ AllLive(testIds)
    /\ AllAvailable(testIds)

\* C5: createOrder for a live patient and distinct, live, available test ids T
\* persists one order whose totalCost is the sum of price over T, whose readyDate
\* is the instant of the call plus max turnaroundDays over T days, with exactly
\* one OrderTest row per id in T.
C5_CreateOrderComputes ==
    [][\A data \in OrderOrderDTOs :
           ValidOrderRequest(data.patientId, data.testIds) /\ StepOf("createOrder")
               /\ CreateOrder(data)
           => LET n == Len(orders) + 1
              IN  /\ result' = Reply("createOrder", "ok", n)
                  /\ Len(orders') = n
                  /\ SubSeq(orders', 1, Len(orders)) = orders
                  /\ orders'[n].patientId = data.patientId
                  /\ orders'[n].totalCost = SumOfPrices(data.testIds)
                  /\ orders'[n].readyDate = now + MaxTurnaround(data.testIds) * TicksPerDay
                  /\ IsNull(orders'[n].deletedAt)
                  /\ OneRowPerId(orderTests'[n], data.testIds)]_vars

\* an order over two tests created after the clock moved, with the later ready date
C5_Witness ==
    /\ result = Reply("createOrder", "ok", 1)
    /\ orderTests[1] = <<1, 2>>
    /\ tests[1].turnaroundDays = 0 /\ tests[2].turnaroundDays = 1
    /\ orders[1].totalCost = 4
    /\ orders[1].readyDate = 1 + TicksPerDay

----------------------------------------------------------------------------
(* C6: createOrder and unavailable tests *)

----------------------------------------------------------------------------
(* C7: test ids that do not resolve to a live test *)

TestNotFoundReply(op, id) == Reply(op, "One or more tests not found", id)

----------------------------------------------------------------------------
(* C8: the patient an order refers to *)

----------------------------------------------------------------------------
(* The word-subset rule on word sets *)

WordSet(name) == SeqToSet(normalizeNameToWords(name))

WordSubsetRule(n1, n2) ==
    LET A == WordSet(n1)
        B == WordSet(n2)
    IN  /\ A # {}
        /\ B # {}
        /\ IF Cardinality(A) <= Cardinality(B) THEN A \subseteq B ELSE B \subseteq A

SameUtcDay(t1, t2) == utcDayStart(t1) = utcDayStart(t2)

----------------------------------------------------------------------------
(* C9: createPatient and existing duplicates *)

LiveDuplicatesOf(data) ==
    {id \in 1..Len(patients) :
        /\ IsNull(patients[id].deletedAt)
        /\ SameUtcDay(patients[id].dob, data.dob)
        /\ WordSubsetRule(data.name, patients[id].name)}

LiveCopiesOf(data) ==
    {id \in 1..Len(patients) :
        /\ IsNull(patients[id].deletedAt)
        /\ patients[id].dob = data.dob
        /\ patients[id].name = trim(data.name)}

\* C9: createPatient(name, dob) is rejected with a Conflict naming an existing
\* patient's id, and inserts no row, whenever a live patient has a date of birth
\* on the same UTC day and a name matching under the word-subset rule; submitting
\* again the data of a live patient is always rejected.
C9_DuplicateRejected ==
    [][\A data \in PatientDTOs :
           StepOf("createPatient") /\ CreatePatient(data)
           => /\ LiveDuplicatesOf(data) # {}
                 => /\ result'.status = "Conflict"
                    /\ result'.id \in LiveDuplicatesOf(data)
                    /\ patients' = patients
              /\ LiveCopiesOf(data) # {} => result'.status = "Conflict"]_vars

----------------------------------------------------------------------------
(* C10: namesMatchWordBased against the word-subset rule *)

\* C10: for all names n1, n2, namesMatchWordBased(n1, n2) is true if and only if
\* both word sets are non-empty and every word of the word set with fewer words
\* appears in the other word set.
C10_MatchIsWordSubsetRule ==
    ~IsNull(matched) => Val(matched) = WordSubsetRule(name1, name2)

----------------------------------------------------------------------------
(* C11: namesMatchWordBased with its arguments exchanged *)

\* C11: the duplicate match is symmetric: namesMatchWordBased(a, b) equals
\* namesMatchWordBased(b, a) for all names a, b.
C11_MatchSymmetric ==
    ~IsNull(matched) => Val(matched) = namesMatchWordBased(name2, name1)

----------------------------------------------------------------------------
(* C12: two createPatient calls that overlap *)

DuplicatesOfEachOther(r1, r2) ==
    /\ IsNull(r1.deletedAt)
    /\ IsNull(r2.deletedAt)
    /\ SameUtcDay(r1.dob, r2.dob)
    /\ namesMatchWordBased(r1.name, r2.name)
    /\ namesMatchWordBased(r2.name, r1.name)

\* C12: the duplicate check and the insert of createPatient are not atomic: a
\* call that passed findDuplicate inserts its row and succeeds even when a
\* duplicate of it was inserted in between, which leaves two live rows that
\* are duplicates of each other.
C12_InsertAfterStaleCheck ==
    [][\A p \in Slots :
          (/\ calls[p].pc = "createPatient:create"
           /\ calls'[p].pc = "idle"
           /\ ~IsNull(PatientRepository_findDuplicate(Val(calls[p].data))))
          => /\ result' = Reply("createPatient", "ok", Len(patients) + 1)
             /\ Len(patients') = Len(patients) + 1
             /\ SubSeq(patients', 1, Len(patients)) = patients
             /\ \E id \in 1..Len(patients) :
                    DuplicatesOfEachOther(patients'[id], patients'[Len(patients')])]_vars

C12_Witness ==
    /\ Len(patients) = 2
    /\ patients[1].name = <<"a">>
    /\ patients[2].name = <<"a">>
    /\ patients[1].dob = patients[2].dob
    /\ DuplicatesOfEachOther(patients[1], patients[2])
    /\ result = Reply("createPatient", "ok", 2)
    /\ \A p \in Slots : calls[p].pc = "idle"

----------------------------------------------------------------------------
(* C13: replacing an order's OrderTest rows *)

\* C13: updateOrder with testIds replaces the order's OrderTest rows atomically:
\* no reader observes the order with its old rows deleted and the new ones not
\* yet inserted, and if the update step fails the prior rows are still present.
C13_TestSetReplacedAtomically ==
    /\ [](~IsNull(seen) => Val(seen) # <<>>)
    /\ [][\A p \in Slots :
             (/\ calls[p].pc = "updateOrder:update"
              /\ result' = Reply("updateOrder", "Database error", calls[p].id))
             => orderTests'[calls[p].id] = Val(calls[p].prior)]_vars

----------------------------------------------------------------------------
(* C14: updateOrder with a new test set *)

ValidOrderUpdate(id, data) ==
    /\ IsLive(orders, id)
    /\ SuppliesPatientId(data) => IsLive(patients, Val(data.patientId))
    /\ SuppliesTestIds(data)
    /\ Distinct(Val(data.testIds))
    /\ AllLive(Val(data.testIds))
    /\ AllAvailable(Val(data.testIds))

\* C14: updateOrder with a list T of distinct live available tests sets totalCost
\* to the sum of price over T, sets readyDate to the instant of the update plus
\* max turnaroundDays over T days, and leaves the order with exactly the
\* OrderTest rows for T and none from the previous set.
C14_UpdateOrderRecomputes ==
    [][\A id \in OrderIds, data \in OrderOrderPatches :
           ValidOrderUpdate(id, data) /\ StepOf("updateOrder") /\ UpdateOrder(id, data)
           => LET T == Val(data.testIds)
              IN  /\ result' = Reply("updateOrder", "ok", id)
                  /\ orders'[id].totalCost = SumOfPrices(T)
                  /\ orders'[id].readyDate = now + MaxTurnaround(T) * TicksPerDay
                  /\ orderTests'[id] = T
                  /\ OneRowPerId(orderTests'[id], T)]_vars

\* an order moved to the single test 1 after the clock advanced: ready at the
\* instant of the update, while any creation on test 2 would be a day later
C14_Witness ==
    /\ result = Reply("updateOrder", "ok", 1)
    /\ now = 1
    /\ orderTests[1] = <<1>>
    /\ tests[1].turnaroundDays = 0
    /\ tests[1].price = 3
    /\ orders[1].totalCost = 3
    /\ orders[1].readyDate = 1

----------------------------------------------------------------------------
(* C15: what a partial update writes *)

PatientPatchFields == {"name", "dob", "phone", "gender", "address"}
TestPatchFields == {"name", "price", "turnaroundDays", "isAvailable"}

\* the row after the update: requested fields take the requested value, all
\* other fields of the row keep theirs
Patched(before, after, data, fields) ==
    /\ DOMAIN after = DOMAIN before
    /\ \A f \in DOMAIN before :
           after[f] = IF f \in fields /\ ~IsNull(data[f]) THEN Val(data[f]) ELSE before[f]

OtherRowsKept(before, after, id) ==
    /\ Len(after) = Len(before)
    /\ \A j \in 1..Len(before) : j # id => after[j] = before[j]

----------------------------------------------------------------------------
(* C16: the status of an order *)

\* C16: an order created without an explicit status has status PENDING, an order
\* created with an explicit status has exactly that status, and in every
\* reachable state each order's status is one of PENDING, PROCESSING, COMPLETED,
\* CANCELLED.
C16_StatusAtCreation ==
    /\ [](\A o \in 1..Len(orders) : orders[o].status \in OrderStatuses)
    /\ [][\A data \in EditOrderDTOs :
             StepOf("createOrder") /\ CreateOrder(data) /\ result'.status = "ok"
             => orders'[result'.id].status =
                    IF IsNull(data.status) THEN "PENDING" ELSE Val(data.status)]_vars

C16_Witness ==
    /\ result = Reply("createOrder", "ok", 1)
    /\ orders[1].status = "CANCELLED"

----------------------------------------------------------------------------
(* C17: status transitions *)

StatusOnlyPatches == {[NoOrderPatch EXCEPT !.status = Some(v)] : v \in OrderStatuses}

\* C17: order status transitions are unrestricted: for every pair of statuses
\* s and s', updateOrder({status: s'}) on a live order in status s succeeds and
\* leaves the order in status s'.
C17_AnyStatusTransition ==
    [][\A id \in OrderIds, data \in StatusOnlyPatches :
           IsLive(orders, id) /\ StepOf("updateOrder") /\ UpdateOrder(id, data)
           => /\ result' = Reply("updateOrder", "ok", id)
              /\ orders'[id].status = Val(data.status)
              /\ IsNull(orders'[id].deletedAt)]_vars

\* an order back in PENDING by an update
C17_Witness ==
    /\ result = Reply("updateOrder", "ok", 1)
    /\ orders[1].status = "PENDING"
    /\ IsNull(orders[1].deletedAt)

----------------------------------------------------------------------------
(* C18: the page and limit handed to the list queries *)

InRange(x, lo, hi) == ~x.nan /\ lo <= x.v /\ x.v <= hi

\* C18: pagination parameters are clamped before any query is issued: a limit of
\* 0 or negative becomes 1, a limit above 100 becomes 100, a page of 0 or negative
\* becomes 1, absent values default to page 1 and limit 10, so skip is never
\* negative and take is always within [1, 100].
C18_PaginationClamped ==
    ~IsNull(paging)
    => LET pg == Val(paging)
           reqPage == parseInt(orElse(query.page, <<>>))
           reqLimit == parseInt(orElse(query.limit, <<>>))
       IN  /\ IsNull(query.page) => pg.page = Num(1)
           /\ IsNull(query.limit) => pg.limit = Num(10)
           /\ (~reqPage.nan /\ reqPage.v <= 0) => pg.page = Num(1)
           /\ (~reqLimit.nan /\ reqLimit.v <= 0) => pg.limit = Num(1)
           /\ (~reqLimit.nan /\ reqLimit.v > 100) => pg.limit = Num(100)
           /\ InRange(pg.limit, 1, 100)
           /\ ~pg.page.nan /\ pg.page.v >= 1
           /\ (pg.page.v - 1) * pg.limit.v >= 0

----------------------------------------------------------------------------
(* C19: the page and the total of a list *)

\* the live rows of a table matching a filter, newest first
RECURSIVE NewestFirst(_, _)
NewestFirst(table, ids) ==
    IF table = <<>> THEN <<>>
    ELSE LET n == Len(table)
             older == NewestFirst(SubSeq(table, 1, n - 1), ids)
         IN  IF n \in ids THEN <<table[n]>> \o older ELSE older

\* positions (page-1)*limit .. (page-1)*limit+limit-1, counted from 0
PageItems(rows, page, limit) ==
    [i \in 1..(IF Len(rows) - (page - 1) * limit < 0 THEN 0
               ELSE IF Len(rows) - (page - 1) * limit < limit
                    THEN Len(rows) - (page - 1) * limit ELSE limit)
        |-> rows[(page - 1) * limit + i]]

Ceiling(a, b) == IF a % b = 0 THEN a \div b ELSE a \div b + 1

\* C19: findAll(filter, page, limit) returns exactly the items at positions
\* (page-1)*limit .. (page-1)*limit+limit-1 of the live rows matching the
\* filter, newest first, reports total as the size of that whole set, and the
\* envelope reports totalPages = ceil(total / limit); identically for the
\* Patient, Test and Order lists.
C19_ListPageAndTotal ==
    \A pg \in PaginationSamples :
        /\ \A f \in PatientFilterSamples :
               LET all == NewestFirst(patients, LivePatientsMatching(f))
                   listed == PatientRepository_findAll(f, pg)
               IN  /\ listed.data = PageItems(all, pageOf(pg), limitOf(pg))
                   /\ listed.total = Len(all)
                   /\ totalPages(listed) = Ceiling(Len(all), limitOf(pg))
        /\ \A f \in OrderFilterSamples :
               LET all == NewestFirst(orders, LiveOrdersMatching(f))
                   listed == OrderRepository_findAll(f, pg)
               IN  /\ listed.data = PageItems(all, pageOf(pg), limitOf(pg))
                   /\ listed.total = Len(all)
                   /\ totalPages(listed) = Ceiling(Len(all), limitOf(pg))
        /\ \A f \in TestFilterSamples :
               LET all == NewestFirst(tests, LiveTestsMatching(f))
               IN  TestRepository_findAll(f) = PageItems(all, pageOf(pg), limitOf(pg))

----------------------------------------------------------------------------
(* C20: named filters and search *)

Supplied(o) == ~IsNull(o)

SearchTexts == {Null, Some(<<"a">>), Some(<<"b">>)}

PatientSearchSamples ==
    {[NoPatientFilters EXCEPT !.name = n, !.gender = g, !.search = q] :
        n \in SearchTexts, g \in {Null, Some("MALE"), Some("FEMALE")}, q \in SearchTexts}

TestSearchSamples ==
    {[NoTestFilters EXCEPT !.name = n, !.isAvailable = a, !.search = q] :
        n \in SearchTexts, a \in {Null, Some(TRUE), Some(FALSE)}, q \in SearchTexts}

OrderSearchSamples ==
    {[NoOrderFilters EXCEPT !.patientId = p, !.status = st, !.search = q] :
        p \in {Null, Some(1), Some(2)}, st \in {Null, Some("PENDING"), Some("COMPLETED")},
        q \in SearchTexts}

PatientSatisfies(row, f) ==
    /\ Supplied(f.name) => containsInsensitive(row.name, Val(f.name))
    /\ Supplied(f.gender) => row.gender = Val(f.gender)
    /\ Supplied(f.phone) => optContains(row.phone, Val(f.phone))
    /\ Supplied(f.search)
         => \/ containsInsensitive(row.name, Val(f.search))
            \/ optContains(row.phone, Val(f.search))
            \/ optContains(row.address, Val(f.search))

TestSatisfies(row, f) ==
    /\ Supplied(f.name) => containsInsensitive(row.name, Val(f.name))
    /\ Supplied(f.isAvailable) => row.isAvailable = Val(f.isAvailable)
    /\ Supplied(f.minPrice) => row.price >= Val(f.minPrice)
    /\ Supplied(f.maxPrice) => row.price <= Val(f.maxPrice)
    /\ Supplied(f.search) => containsInsensitive(row.name, Val(f.search))

OrderSatisfies(row, f) ==
    /\ Supplied(f.patientId) => row.patientId = Val(f.patientId)
    /\ Supplied(f.status) => row.status = Val(f.status)
    /\ Supplied(f.minTotalCost) => row.totalCost >= Val(f.minTotalCost)
    /\ Supplied(f.maxTotalCost) => row.totalCost <= Val(f.maxTotalCost)
    /\ Supplied(f.readyDateFrom) => row.readyDate >= Val(f.readyDateFrom)
    /\ Supplied(f.readyDateTo) => row.readyDate <= Val(f.readyDateTo)
    /\ Supplied(f.search)
         => containsInsensitive(patients[row.patientId].name, Val(f.search))

\* C20: for every entity kind a list query returns a row if and only if the row
\* satisfies every supplied named filter and, when search is supplied, one of
\* the entity's searchable text fields contains the search text; search given
\* together with a named filter on the same field requires both.
C20_FiltersAndSearch ==
    /\ \A f \in PatientSearchSamples :
           IdsIn(PatientRepository_findAll(f, Null).data)
               = {id \in 1..Len(patients) :
                      IsLive(patients, id) /\ PatientSatisfies(patients[id], f)}
    /\ \A f \in TestSearchSamples :
           IdsIn(TestRepository_findAll(f))
               = {id \in 1..Len(tests) : IsLive(tests, id) /\ TestSatisfies(tests[id], f)}
    /\ \A f \in OrderSearchSamples :
           IdsIn(OrderRepository_findAll(f, Null).data)
               = {id \in 1..Len(orders) :
                      IsLive(orders, id) /\ OrderSatisfies(orders[id], f)}

----------------------------------------------------------------------------
(* C21: the record returned by delete *)

\* C21: delete(id) on a live entity returns the entity as it stood immediately
\* before the deletion marker was set: the returned record has its marker unset
\* and all other fields equal to the stored row's values before the delete.
C21_DeleteReturnsPriorEntity ==
    [][/\ \A id \in StorePatientIds :
              StepOf("deletePatient") /\ DeletePatient(id) /\ result'.status = "ok"
              => /\ IsNull(PatientRepository_deleteReturned(id).deletedAt)
                 /\ PatientRepository_deleteReturned(id) = patients[id]
       /\ \A id \in TestIds :
              StepOf("deleteTest") /\ DeleteTest(id) /\ result'.status = "ok"
              => /\ IsNull(TestRepository_deleteReturned(id).deletedAt)
                 /\ TestRepository_deleteReturned(id) = tests[id]
       /\ \A id \in OrderIds :
              StepOf("deleteOrder") /\ DeleteOrder(id) /\ result'.status = "ok"
              => /\ IsNull(OrderRepository_deleteReturned(id).deletedAt)
                 /\ OrderRepository_deleteReturned(id) = orders[id]]_vars

----------------------------------------------------------------------------
(* C22: rows are never removed and markers never cleared *)

RowsKept(table) == IdsIn(table) \subseteq IdsIn(table')

MarkersStay(table) ==
    \A i \in 1..Len(table) :
        ~IsNull(table[i].deletedAt)
        => \E j \in 1..Len(table') :
               table'[j].id = table[i].id /\ ~IsNull(table'[j].deletedAt)

\* C22: no service operation on Patient, Test or Order physically removes a row
\* or clears a deletion marker: across every step the set of stored row ids of
\* each table only grows, and a row whose deletedAt is set still has it set.
C22_NoRemovalNoUndelete ==
    [][/\ RowsKept(patients) /\ RowsKept(tests) /\ RowsKept(orders)
       /\ MarkersStay(patients) /\ MarkersStay(tests) /\ MarkersStay(orders)]_vars

\* a test was created after test 1 was soft-deleted, with patient and order
\* soft-deleted as well
C22_Witness ==
    /\ Len(tests) = 2 /\ HasMarker(tests, 1)
    /\ HasMarker(patients, 1) /\ HasMarker(orders, 1)
    /\ result = Reply("createTest", "ok", 2)

----------------------------------------------------------------------------
(* C23: the failure of a fetch by id that resolves to no live row *)

\* a failure of the NotFound kind: a NotFoundError, which the boundary renders
\* as 404 and not as the 500 of a generic failure
NotFoundTyped(thrown) ==
    /\ ~IsNull(thrown)
    /\ Val(thrown).class = "NotFoundError"
    /\ apiHandler(Val(thrown)) = 404

\* C23: getPatientById, getTestById and getOrderById on an id that does not
\* resolve to a live row (never created, or soft-deleted) fail with a
\* NotFound-typed failure, distinguishable from a generic failure; and a
\* soft-deleted order is absent from the list of orders with no filters.
C23_NotFoundTypedFailure ==
    /\ \A id \in StorePatientIds :
           ~IsLive(patients, id) => NotFoundTyped(PatientService_getPatientById_thrown(id))
    /\ \A id \in TestIds :
           ~IsLive(tests, id) => NotFoundTyped(TestService_getTestById_thrown(id))
    /\ \A id \in OrderIds :
           ~IsLive(orders, id) => NotFoundTyped(OrderService_getOrderById_thrown(id))
    /\ \A id \in OrderIds :
           HasMarker(orders, id)
           => \A pg \in PaginationSamples :
                  id \notin IdsIn(OrderRepository_findAll(NoOrderFilters, pg).data)

----------------------------------------------------------------------------
(* C24: update and delete of a row that is already soft-deleted *)

\* the step is an update or a delete of patient, test or order `id`
PatientWriteCall(id) ==
    \/ StepOf("updatePatient") /\ \E data \in StorePatientPatches : UpdatePatient(id, data)
    \/ StepOf("deletePatient") /\ DeletePatient(id)

TestWriteCall(id) ==
    \/ StepOf("updateTest") /\ \E data \in StoreTestPatches : UpdateTest(id, data)
    \/ StepOf("deleteTest") /\ DeleteTest(id)

OrderWriteCall(id) ==
    \/ StepOf("updateOrder") /\ \E data \in StoreOrderPatches : UpdateOrder(id, data)
    \/ StepOf("deleteOrder") /\ DeleteOrder(id)

----------------------------------------------------------------------------
(* C25: createPatient after the soft delete of a patient with the same data *)

DeletedCopiesOf(data) ==
    {id \in 1..Len(patients) :
        /\ ~IsNull(patients[id].deletedAt)
        /\ patients[id].dob = data.dob
        /\ patients[id].name = trim(data.name)}

\* C25: the duplicate check considers only non-deleted patients: when a
\* soft-deleted patient has the name and date of birth of the request and no
\* live patient matches it, createPatient succeeds and adds a new live row
\* holding the request's name and date of birth.
C25_DeletedPatientNoDuplicate ==
    [][\A data \in PatientDTOs :
           /\ StepOf("createPatient") /\ CreatePatient(data)
           /\ DeletedCopiesOf(data) # {}
           /\ LiveDuplicatesOf(data) = {}
           => /\ result' = Reply("createPatient", "ok", Len(patients) + 1)
              /\ Len(patients') = Len(patients) + 1
              /\ IsNull(patients'[Len(patients')].deletedAt)
              /\ patients'[Len(patients')].name = trim(data.name)
              /\ patients'[Len(patients')].dob = data.dob
              /\ SubSeq(patients', 1, Len(patients)) = patients]_vars

\* patient 1 was soft-deleted and patient 2 then registered with its data
C25_Witness ==
    /\ result = Reply("createPatient", "ok", 2)
    /\ Len(patients) = 2
    /\ HasMarker(patients, 1) /\ IsLive(patients, 2)
    /\ patients[2].name = patients[1].name /\ patients[2].dob = patients[1].dob
    /\ WordSet(patients[1].name) # {}

----------------------------------------------------------------------------
(* C26: the tests of an order at the instant the order is written *)

\* every test referenced by order `id` after the step is, when the step is
\* taken, a live test with isAvailable = true
WrittenTestsUsable(id) ==
    \A i \in 1..Len(orderTests'[id]) :
        /\ IsLive(tests, orderTests'[id][i])
        /\ tests[orderTests'[id][i]].isAvailable

\* C26: at the instant an Order row is written by createOrder or updateOrder,
\* every test it references is live and has isAvailable = true, also when
\* updateTest (setting isAvailable to false) or deleteTest runs between the
\* reads and the write of the order operation.
C26_WrittenTestsLiveAndAvailable ==
    [][\A p \in Slots :
           /\ WriteCreateOrder(p) => WrittenTestsUsable(Len(orders) + 1)
           /\ WriteUpdateOrder(p) => WrittenTestsUsable(calls[p].id)]_vars

----------------------------------------------------------------------------
(* C27: live patients after sequential createPatient calls *)

MatchEitherOrder(r1, r2) ==
    /\ IsNull(r1.deletedAt)
    /\ IsNull(r2.deletedAt)
    /\ SameUtcDay(r1.dob, r2.dob)
    /\ \/ namesMatchWordBased(r1.name, r2.name)
       \/ namesMatchWordBased(r2.name, r1.name)

\* C27: when createPatient calls run one at a time and no update occurs, in
\* every reachable state no two distinct live patients with dates of birth on
\* the same UTC day have names for which namesMatchWordBased is true in either
\* argument order.
C27_NoLiveDuplicatesSequentially ==
    \A i, j \in 1..Len(patients) :
        i # j => ~MatchEitherOrder(patients[i], patients[j])

----------------------------------------------------------------------------
(* C28: updatePatient and duplicates *)

PatchedName(id, data) == IF IsNull(data.name) THEN patients[id].name ELSE Val(data.name)
PatchedDob(id, data) == IF IsNull(data.dob) THEN patients[id].dob ELSE Val(data.dob)

\* another live patient has a birth day and a name the patched values match
\* under the word-subset rule
PatchMatchesOther(id, data) ==
    \E j \in 1..Len(patients) :
        /\ j # id
        /\ IsLive(patients, j)
        /\ SameUtcDay(patients[j].dob, PatchedDob(id, data))
        /\ WordSubsetRule(PatchedName(id, data), patients[j].name)

LiveDuplicatePair(i, j) ==
    /\ i # j
    /\ IsLive(patients, i) /\ IsLive(patients, j)
    /\ SameUtcDay(patients[i].dob, patients[j].dob)
    /\ WordSubsetRule(patients[i].name, patients[j].name)

\* C28: updatePatient performs no duplicate check: an update of a live patient
\* whose new name and date of birth match another live patient of the same
\* birth day under the word-subset rule succeeds and stores the new values,
\* which leaves two live duplicate patients.
C28_UpdateSkipsDuplicateCheck ==
    [][\A id \in PatientIds, data \in PatientPatches :
           /\ StepOf("updatePatient") /\ UpdatePatient(id, data)
           /\ IsLive(patients, id)
           /\ PatchMatchesOther(id, data)
           => /\ result' = Reply("updatePatient", "ok", id)
              /\ patients'[id].name = PatchedName(id, data)
              /\ patients'[id].dob = PatchedDob(id, data)
              /\ \E j \in 1..Len(patients) : LiveDuplicatePair(id, j)']_vars

\* two live duplicate patients, one of them holding the name an update wrote
C28_Witness ==
    \E id, j \in 1..Len(patients) :
        /\ result = Reply("updatePatient", "ok", id)
        /\ patients[id].name = <<" ", "a">>
        /\ LiveDuplicatePair(id, j)

----------------------------------------------------------------------------
(* C29: live orders and the patients they refer to *)

\* C29 as stated: in every reachable state every live order refers to a live
\* patient.
C29_LiveOrdersReferenceLivePatients ==
    \A o \in 1..Len(orders) :
        IsLive(orders, o) => IsLive(patients, orders[o].patientId)

\* C29, amended: the patient of an order is live when createOrder writes the
\* order and when updateOrder writes a supplied patientId; deletePatient on a
\* live patient succeeds whatever orders refer to it and leaves the orders as
\* they are.
C29_PatientLiveWhenWritten ==
    [][/\ \A data \in OrderOrderDTOs :
              StepOf("createOrder") /\ CreateOrder(data) /\ result'.status = "ok"
              => /\ IsLive(patients, data.patientId)
                 /\ orders'[result'.id].patientId = data.patientId
       /\ \A id \in OrderIds, data \in OrderOrderPatches :
              /\ StepOf("updateOrder") /\ UpdateOrder(id, data) /\ result'.status = "ok"
              /\ SuppliesPatientId(data)
              => /\ IsLive(patients, Val(data.patientId))
                 /\ orders'[id].patientId = Val(data.patientId)
       /\ \A id \in StorePatientIds :
              StepOf("deletePatient") /\ DeletePatient(id) /\ IsLive(patients, id)
              => /\ result' = Reply("deletePatient", "ok", id)
                 /\ HasMarker(patients, id)'
                 /\ orders' = orders]_vars

\* deletePatient has just soft-deleted the patient of a live order
C29_Witness ==
    /\ result = Reply("deletePatient", "ok", 1)
    /\ IsLive(orders, 1) /\ orders[1].patientId = 1
    /\ HasMarker(patients, 1)

----------------------------------------------------------------------------
(* C30: a testIds list that names a test more than once *)

\* every id of the list is a live, available test and some id occurs twice
RepeatsUsableTests(ids) == ~Distinct(ids) /\ AllLive(ids) /\ AllAvailable(ids)

====
